---- MODULE Spec2Model ----
(***************************************************************************)
(* Model of the two Composio search pipelines                              *)
(*   scripts/lib/composio_reddit.py   (search_reddit_topic)                *)
(*   scripts/lib/composio_twitter.py  (search_twitter_topic)               *)
(* One call of search_<platform>_topic is a run of the state machine:      *)
(*   start -> resolved -> fetched -> normalized -> done, or -> failed.     *)
(*                                                                         *)
(* Representation of Python values                                         *)
(*   str            a sequence of tokens (<<>> is ""), so that slicing and *)
(*                  f-string concatenation are Prefix and \o               *)
(*   Optional[str]  <<>> is None, <<s>> is the string s                    *)
(*   dict           a function from key names to values; d.get(k, v) is    *)
(*                  Get(d, k, v)                                           *)
(*   a JSON value whose type the code tests (isinstance(data, list)) or    *)
(*   on which it calls .get is tagged: t is "list" or "dict", l holds the   *)
(*   elements of a list and d the entries of a dict                        *)
(*   a list of dicts the code mutates in place is a sequence of references *)
(*   into heap                                                             *)
(* response.ok is read as "the status is 2xx".                             *)
(***************************************************************************)
EXTENDS Integers, Sequences, FiniteSets, TLC

\* ---------------------------------------------------------------- bounds
MaxItems == 2      \* longest item list in a provider response
MaxUsers == 2      \* longest includes.users list
MaxMetric == 1     \* largest value of a metric counter

\* ------------------------------------------------------ program constants
MinResults == 10
DefaultMaxResults == 20
TitleMax == 200
ErrorTextMax == 500
DefaultUserId == "pg-test-YOUR-USER-ID"
BaseUrl == "https://backend.composio.dev/api"

\* ------------------------------------------------------- Python helpers
EmptyDict == [k \in {} |-> 0]
Get(d, k, default) == IF k \in DOMAIN d THEN d[k] ELSE default
Put(d, k, v) == [x \in (DOMAIN d) \cup {k} |-> IF x = k THEN v ELSE d[x]]
Prefix(s, n) == SubSeq(s, 1, IF Len(s) < n THEN Len(s) ELSE n)
List(s) == [t |-> "list", l |-> s, d |-> EmptyDict]
Dict(x) == [t |-> "dict", l |-> <<>>, d |-> x]
None == <<>>
Some(s) == <<s>>
\* truth value of an Optional[str]: None and "" are falsy
Truthy(o) == o # <<>> /\ o[1] # ""
\* truth value of a str
StrTruthy(s) == Len(s) > 0

Max(S) == CHOOSE x \in S : \A y \in S : y <= x

\* ------------------------------------------------- credential resolution
\* get_composio_api_key without the 'if not key: raise'
get_composio_api_key_unchecked(env) ==
    [raised |-> FALSE, value |-> Get(env, "COMPOSIO_API_KEY", "")]

\* get_composio_api_key(): [raised, value]
get_composio_api_key(env) ==
    LET key == IF "COMPOSIO_API_KEY" \in DOMAIN env
               THEN Some(env["COMPOSIO_API_KEY"]) ELSE None
    IN IF ~Truthy(key)
       THEN [raised |-> TRUE, value |-> ""]
       ELSE [raised |-> FALSE, value |-> key[1]]

get_user_id(env) == Get(env, "COMPOSIO_USER_ID", DefaultUserId)

\* "if not api_key: api_key = get_composio_api_key()"
resolve_api_key(arg, env) ==
    IF ~Truthy(arg) THEN get_composio_api_key(env)
    ELSE [raised |-> FALSE, value |-> arg[1]]

\* "if not user_id: user_id = get_user_id()"
resolve_user_id(arg, env) ==
    IF ~Truthy(arg) THEN get_user_id(env) ELSE arg[1]

\* --------------------------------------------------------------- request
ActionName(p) == IF p = "reddit" THEN "REDDIT_REDDIT_SEARCH" ELSE "TWITTER_RECENT_SEARCH"
LimitKey(p) == IF p = "reddit" THEN "limit" ELSE "max_results"

\* search_twitter_topic without the floor
twitter_max_results_unclamped(n) == n

\* "max_results = max(max_results, 10)" of search_twitter_topic
twitter_max_results(n) == IF n > MinResults THEN n ELSE MinResults

\* the limit handed to the transport by search_<platform>_topic
topic_max_results(p, n) == IF p = "twitter" THEN twitter_max_results(n) ELSE n

request_body(p, uid, query, n, connection_id) ==
    LET body == [userId |-> uid,
                 input |-> ("query" :> query) @@ (LimitKey(p) :> n)]
    IN IF Truthy(connection_id)
       THEN Put(body, "connectedAccountId", connection_id[1])
       ELSE body

request_headers(key) ==
    ("x-api-key" :> key) @@ ("Content-Type" :> "application/json")

http_request(p, key, uid, query, n, connection_id) ==
    [url |-> <<BaseUrl, "/v2/actions/", ActionName(p), "/execute">>,
     headers |-> request_headers(key),
     json |-> request_body(p, uid, query, n, connection_id)]

\* ------------------------------------------------------------- transport
\* response.ok
response_ok(resp) == resp.status >= 200 /\ resp.status < 300

\* 'not result.get("success") and result.get("error")'
provider_error(result) ==
    ~Get(result, "success", FALSE) /\ StrTruthy(Get(result, "error", <<>>))

\* the validation without the check of the success and error fields
response_error_status_only(resp) ==
    IF ~response_ok(resp)
    THEN Some(<<"Composio ", ToString(resp.status), ": ">>
              \o Prefix(resp.text, ErrorTextMax))
    ELSE None

\* the validation of search_reddit / search_twitter: None when the response
\* is accepted, else the message of the exception raised
response_error(resp) ==
    IF ~response_ok(resp)
    THEN Some(<<"Composio ", ToString(resp.status), ": ">>
              \o Prefix(resp.text, ErrorTextMax))
    ELSE IF provider_error(resp.json)
         THEN Some(<<"Composio error: ">> \o resp.json.error)
         ELSE None

\* 'return result.get("data", result)'
response_data_or_body(result) == Get(result, "data", Dict(result))

\* 'return result.get("data", {})'
response_data(result) == Get(result, "data", Dict(EmptyDict))

\* ------------------------------------------------------------ normalizers
\* 'data = response.get("data", response)
\*  items = data if isinstance(data, list) else data.get("data", [])'
\* for a dict response (its untagged value); the result is the item list
response_items(r) ==
    LET data == Get(r, "data", Dict(r))
    IN IF data.t = "list" THEN data.l
       ELSE Get(data.d, "data", List(<<>>)).l

\* the record of the '"title" in item' branch
reddit_native(item) ==
    [title |-> Get(item, "title", <<>>),
     url |-> Get(item, "url", <<"https://reddit.com">> \o Get(item, "permalink", <<>>)),
     score |-> Get(item, "score", 0),
     num_comments |-> Get(item, "num_comments", 0),
     author |-> Get(item, "author", <<>>),
     subreddit |-> Get(item, "subreddit", <<>>),
     created_utc |-> Get(item, "created_utc", 0),
     selftext |-> Get(item, "selftext", <<>>)]

\* the record of the '"text" in item' branch
reddit_xstyle(item) ==
    [title |-> Prefix(Get(item, "text", <<>>), TitleMax),
     url |-> Get(item, "url", <<>>),
     score |-> Get(Get(item, "metrics", EmptyDict), "likes", 0),
     num_comments |-> Get(Get(item, "metrics", EmptyDict), "replies", 0),
     author |-> Get(item, "username", Get(item, "author", <<>>)),
     subreddit |-> Get(item, "subreddit", <<>>),
     created_utc |-> Get(item, "created_at", Get(item, "created_utc", <<>>)),
     selftext |-> <<>>]

\* the loop body with an else branch that keeps unrecognized items
reddit_step_keep_all(posts, item) ==
    IF "title" \in DOMAIN item THEN Append(posts, reddit_native(item))
    ELSE Append(posts, reddit_xstyle(item))

\* one iteration of the loop of parse_reddit_response
reddit_step(posts, item) ==
    IF "title" \in DOMAIN item THEN Append(posts, reddit_native(item))
    ELSE IF "text" \in DOMAIN item THEN Append(posts, reddit_xstyle(item))
    ELSE posts

RECURSIVE reddit_loop(_, _)
reddit_loop(items, posts) ==
    IF Len(items) = 0 THEN posts
    ELSE reddit_loop(Tail(items), reddit_step(posts, Head(items)))

\* parse_reddit_response(response): response.get on a list raises
\* AttributeError
parse_reddit_response(response) ==
    IF response.t # "dict"
    THEN [raised |-> TRUE, value |-> <<>>]
    ELSE [raised |-> FALSE,
          value |-> reddit_loop(response_items(response.d), <<>>)]

\* the record appended by the first loop of parse_twitter_response
tweet_record(item) ==
    [id |-> Get(item, "id", <<>>),
     text |-> Get(item, "text", <<>>),
     author_id |-> Get(item, "author_id", <<>>),
     username |-> <<>>,
     name |-> <<>>,
     created_at |-> Get(item, "created_at", <<>>),
     metrics |-> [likes |-> Get(Get(item, "public_metrics", EmptyDict), "like_count", 0),
                  retweets |-> Get(Get(item, "public_metrics", EmptyDict), "retweet_count", 0),
                  replies |-> Get(Get(item, "public_metrics", EmptyDict), "reply_count", 0),
                  impressions |-> Get(Get(item, "public_metrics", EmptyDict), "impression_count", 0)],
     urls |-> <<>>,
     mentions |-> <<>>,
     hashtags |-> <<>>,
     tweet_url |-> <<>>]

\* the loop body with tweets.insert(0, ...) in place of tweets.append(...)
twitter_step_prepend(tweets, item) == <<tweet_record(item)>> \o tweets

twitter_step(tweets, item) == Append(tweets, tweet_record(item))

RECURSIVE twitter_loop(_, _)
twitter_loop(items, tweets) ==
    IF Len(items) = 0 THEN tweets
    ELSE twitter_loop(Tail(items), twitter_step(tweets, Head(items)))

\* 'user_map = {u.get("id"): u for u in users}; user_map.get(author_id, {})'
\* a later entry with the same id replaces an earlier one; an entry without
\* id is keyed by None, which no author_id string equals
user_map_get(users, author_id) ==
    LET hits == {i \in 1..Len(users) :
                    "id" \in DOMAIN users[i] /\ users[i].id = author_id}
    IN IF hits = {} THEN EmptyDict ELSE users[Max(hits)]

\* the username interpolated into tweet_url
url_username(user) == Get(user, "username", <<"unknown">>)

\* the body of the second loop of parse_twitter_response
fill_user(tweet, users) ==
    LET user == user_map_get(users, tweet.author_id)
    IN [tweet EXCEPT
          !.username = Get(user, "username", <<>>),
          !.name = Get(user, "name", <<>>),
          !.tweet_url = <<"https://x.com/">> \o url_username(user)
                        \o <<"/status/">> \o tweet.id]

parse_twitter_response(response) ==
    IF response.t # "dict"
    THEN [raised |-> TRUE, value |-> <<>>]
    ELSE LET tweets == twitter_loop(response_items(response.d), <<>>)
             users == Get(Get(response.d, "includes", EmptyDict), "users", <<>>)
         IN [raised |-> FALSE,
             value |-> [i \in 1..Len(tweets) |-> fill_user(tweets[i], users)]]

\* -------------------------------------------------------------- enrichers
reddit_engagement(post) ==
    Get(post, "score", 0) + (Get(post, "num_comments", 0) * 2)

\* the engagement sum with impressions added
twitter_engagement_with_impressions(tweet) ==
    LET m == Get(tweet, "metrics", EmptyDict)
    IN Get(m, "likes", 0) + Get(m, "retweets", 0) * 2 + Get(m, "replies", 0)
       + Get(m, "impressions", 0)

twitter_engagement(tweet) ==
    LET m == Get(tweet, "metrics", EmptyDict)
    IN Get(m, "likes", 0) + Get(m, "retweets", 0) * 2 + Get(m, "replies", 0)

engagement_of(p, rec) ==
    IF p = "reddit" THEN reddit_engagement(rec) ELSE twitter_engagement(rec)

\* the loop of enrich_with_metrics / enrich_tweets over the list of
\* references refs, from position i: 'post["engagement"] = engagement'
\* writes into the dict the input list holds, 'enriched.append(post)'
\* appends the same reference
RECURSIVE enrich_loop(_, _, _, _, _)
enrich_loop(p, h, refs, i, out) ==
    IF i > Len(refs) THEN [heap |-> h, enriched |-> out]
    ELSE LET ref == refs[i]
             engagement == engagement_of(p, h[ref])
         IN enrich_loop(p, [h EXCEPT ![ref] = Put(h[ref], "engagement", engagement)],
                        refs, i + 1, Append(out, ref))

enrich_with_metrics(h, posts) == enrich_loop("reddit", h, posts, 1, <<>>)
enrich_tweets(h, tweets) == enrich_loop("twitter", h, tweets, 1, <<>>)

\* ------------------------------------------------------------------ inputs
SeqsUpTo(S, n) == UNION {[1..k -> S] : k \in 0..n}
Opt(k, o) == IF o = None THEN EmptyDict ELSE k :> o[1]

Platforms == {"reddit", "twitter"}
Limits == {0, MinResults - 1, MinResults, MinResults + 1, DefaultMaxResults}
Metric == 0..MaxMetric

\* os.environ
EnvOf(k, u) == Opt("COMPOSIO_API_KEY", k) @@ Opt("COMPOSIO_USER_ID", u)
Environs == {EnvOf(k, u) : k \in {None, Some(""), Some("k2")},
                           u \in {None, Some("u2")}}

\* the arguments of search_<platform>_topic
CallArgs == [query : {"AI"}, max_results : Limits,
             api_key : {None, Some(""), Some("k1")},
             user_id : {None, Some("u1")},
             connection_id : {None, Some("c1")}]
PlainArgs == [query |-> "AI", max_results |-> DefaultMaxResults,
              api_key |-> Some("k1"), user_id |-> None, connection_id |-> None]

\* items of a provider response
NativeItems ==
    {[title |-> <<"T1">>, permalink |-> <<"/r/x/1">>]}
    \cup {[title |-> <<"T2">>, url |-> <<"http://u2">>, score |-> s, num_comments |-> c] :
            s \in Metric, c \in Metric}
XStyleItems ==
    {[text |-> <<"h", "i">>, metrics |-> [likes |-> l, replies |-> MaxMetric]] : l \in Metric}
    \cup {[text |-> <<"y", "o">>]}
OtherItems == {[id |-> <<"9">>]}
TweetItems ==
    {[id |-> <<"1">>, text |-> <<"a">>, author_id |-> <<"u1">>,
      public_metrics |-> [like_count |-> MaxMetric, retweet_count |-> r,
                          reply_count |-> MaxMetric, impression_count |-> m]] :
        r \in Metric, m \in Metric}
Items == NativeItems \cup XStyleItems \cup OtherItems \cup TweetItems
ItemLists == SeqsUpTo(Items, MaxItems)

\* tweets and users of a response that carries includes.users
AuthoredTweets ==
    {[id |-> <<"5">>, text |-> <<"b">>, author_id |-> <<"u1">>],
     [id |-> <<"6">>, text |-> <<"c">>, author_id |-> <<"u2">>],
     [id |-> <<"7">>, text |-> <<"d">>]}
Users ==
    {[id |-> <<"u1">>, username |-> <<"alice">>, name |-> <<"Alice">>],
     [id |-> <<"u1">>, username |-> <<>>, name |-> <<"Anon">>],
     [id |-> <<"u2">>, name |-> <<"Bob">>],
     [username |-> <<"carol">>, name |-> <<"Carol">>]}
AuthoredLists == SeqsUpTo(AuthoredTweets, MaxItems)
UserLists == SeqsUpTo(Users, MaxUsers)

\* the value under "data" of the JSON body, which the transport returns
RichData ==
    {List(l) : l \in ItemLists}
    \cup {Dict([data |-> List(l)]) : l \in ItemLists}
    \cup {Dict([data |-> Dict([data |-> List(l)])]) : l \in ItemLists}
    \cup {Dict([data |-> List(l), includes |-> [users |-> u]]) :
            l \in AuthoredLists, u \in UserLists}
    \cup {Dict([includes |-> [users |-> u]]) : u \in UserLists}
SmallData == {None, Some(List(<<[title |-> <<"T1">>]>>))}

JsonBody(success, error, data) ==
    Opt("success", success) @@ Opt("error", error) @@ Opt("data", data)

\* the HTTP responses of the provider
HttpFailures ==
    {[status |-> s, text |-> t, json |-> EmptyDict] :
        s \in {404, 500}, t \in {<<>>, <<"n", "o">>}}
FlagWires ==
    {[status |-> 200, text |-> <<>>, json |-> JsonBody(s, e, d)] :
        s \in {None, Some(TRUE), Some(FALSE)},
        e \in {None, Some(<<>>), Some(<<"bad query">>)},
        d \in SmallData}
RichWires ==
    {[status |-> 200, text |-> <<>>, json |-> JsonBody(Some(TRUE), None, Some(d))] :
        d \in RichData}

\* ------------------------------------------------------------------- state
VARIABLES
    platform,   \* which module's search_<platform>_topic is called
    args,       \* its arguments
    environ,    \* os.environ
    wire,       \* the HTTP response the provider gives to the POST
    pc,         \* position of the call
    api_key,    \* local api_key after resolution
    user_id,    \* local user_id after resolution
    sent,       \* the HTTP POSTs issued, in order
    response,   \* local response: what the transport returned
    heap,       \* the record dicts created by the normalizer
    parsed,     \* the list returned by the normalizer (references)
    enriched,   \* the list returned by the enricher (references)
    result,     \* the list returned to the caller (references)
    error,      \* the exception the call ended in
    ran         \* the functions called so far, in order

vars == <<platform, args, environ, wire, pc, api_key, user_id, sent,
          response, heap, parsed, enriched, result, error, ran>>

NoError == [kind |-> "none", msg |-> <<>>]

Init ==
    /\ platform \in Platforms
    /\ \/ /\ args \in CallArgs
          /\ environ \in Environs
          /\ wire \in HttpFailures \cup FlagWires
       \/ /\ args = PlainArgs
          /\ environ = EnvOf(None, None)
          /\ wire \in RichWires
    /\ pc = "start"
    /\ api_key = ""
    /\ user_id = ""
    /\ sent = <<>>
    /\ response = [t |-> "unset", l |-> <<>>, d |-> EmptyDict]
    /\ heap = <<>>
    /\ parsed = <<>>
    /\ enriched = <<>>
    /\ result = <<>>
    /\ error = NoError
    /\ ran = <<>>

\* search_<platform>_topic, credential resolution
Resolve ==
    /\ pc = "start"
    /\ LET k == resolve_api_key(args.api_key, environ)
       IN IF k.raised
          THEN /\ pc' = "failed"
               /\ error' = [kind |-> "ValueError", msg |-> <<"COMPOSIO_API_KEY not set">>]
               /\ UNCHANGED <<api_key, user_id>>
          ELSE /\ pc' = "resolved"
               /\ api_key' = k.value
               /\ user_id' = resolve_user_id(args.user_id, environ)
               /\ UNCHANGED error
    /\ ran' = Append(ran, "resolve")
    /\ UNCHANGED <<platform, args, environ, wire, sent, response, heap,
                   parsed, enriched, result>>

\* search_<platform>_topic calling search_reddit / search_twitter
Transport ==
    /\ pc = "resolved"
    /\ LET n == topic_max_results(platform, args.max_results)
           req == http_request(platform, api_key, user_id, args.query, n,
                               args.connection_id)
           err == response_error(wire)
       IN /\ sent' = Append(sent, req)
          /\ IF err # None
             THEN /\ pc' = "failed"
                  /\ error' = [kind |-> "Exception", msg |-> err[1]]
                  /\ UNCHANGED response
             ELSE /\ pc' = "fetched"
                  /\ response' = response_data(wire.json)
                  /\ UNCHANGED error
    /\ ran' = Append(ran, "transport")
    /\ UNCHANGED <<platform, args, environ, wire, api_key, user_id, heap,
                   parsed, enriched, result>>

\* search_<platform>_topic calling parse_reddit_response /
\* parse_twitter_response
Normalize ==
    /\ pc = "fetched"
    /\ LET r == IF platform = "reddit" THEN parse_reddit_response(response)
                ELSE parse_twitter_response(response)
       IN IF r.raised
          THEN /\ pc' = "failed"
               /\ error' = [kind |-> "AttributeError",
                            msg |-> <<"'list' object has no attribute 'get'">>]
               /\ UNCHANGED <<heap, parsed>>
          ELSE /\ pc' = "normalized"
               /\ heap' = r.value
               /\ parsed' = [i \in 1..Len(r.value) |-> i]
               /\ UNCHANGED error
    /\ ran' = Append(ran, "normalize")
    /\ UNCHANGED <<platform, args, environ, wire, api_key, user_id, sent,
                   response, enriched, result>>

\* search_<platform>_topic calling enrich_with_metrics / enrich_tweets and
\* returning the list
Enrich ==
    /\ pc = "normalized"
    /\ LET e == IF platform = "reddit" THEN enrich_with_metrics(heap, parsed)
                ELSE enrich_tweets(heap, parsed)
       IN /\ heap' = e.heap
          /\ enriched' = e.enriched
          /\ result' = e.enriched
    /\ pc' = "done"
    /\ ran' = Append(ran, "enrich")
    /\ UNCHANGED <<platform, args, environ, wire, api_key, user_id, sent,
                   response, parsed, error>>

Next == Resolve \/ Transport \/ Normalize \/ Enrich

Spec == Init /\ [][Next]_vars

\* ------------------------------------------------------------- properties
Range(s) == {s[i] : i \in DOMAIN s}
Called(f) == f \in Range(ran)
EndsWith(s, t) ==
    /\ Len(t) <= Len(s)
    /\ \A i \in 1..Len(t) : s[Len(s) - Len(t) + i] = t[i]

\* the call was made without a usable api_key argument
NoKeyArg == args.api_key = None \/ args.api_key = Some("")
\* COMPOSIO_API_KEY is unset or empty
EnvKeyMissing ==
    \/ "COMPOSIO_API_KEY" \notin DOMAIN environ
    \/ environ["COMPOSIO_API_KEY"] = ""

\* C1: a call without api_key argument while COMPOSIO_API_KEY is unset or
\* empty ends in the configuration error (ValueError) and never issues an
\* HTTP POST; when the variable is non-empty the resolver does not fail.
C1_NoKeyNoPost ==
    /\ (NoKeyArg /\ EnvKeyMissing) =>
          /\ sent = <<>>
          /\ pc \in {"start", "failed"}
          /\ pc = "failed" => error.kind = "ValueError"
    /\ ~EnvKeyMissing => error.kind # "ValueError"

C1_Witness ==
    /\ NoKeyArg /\ EnvKeyMissing
    /\ pc = "failed" /\ error.kind = "ValueError" /\ sent = <<>>
    /\ ran = <<"resolve">>

\* the provider answered with a non-2xx status
HttpFailed == wire.status < 200 \/ wire.status > 299
\* the provider answered 2xx with success false and a non-empty error
ProviderFailed ==
    /\ ~HttpFailed
    /\ "success" \in DOMAIN wire.json /\ wire.json.success = FALSE
    /\ "error" \in DOMAIN wire.json /\ Len(wire.json.error) > 0

C3_TwitterLimitFloor ==
    (platform = "twitter" /\ Len(sent) > 0) =>
        /\ Len(sent) = 1
        /\ sent[1].json.input["max_results"] =
              IF args.max_results < 10 THEN 10 ELSE args.max_results

C3_Witness ==
    /\ platform = "twitter" /\ Len(sent) = 1
    /\ args.max_results < 10
    /\ sent[1].json.input["max_results"] = 10

\* the transport step returned a value
TransportReturned == response.t # "unset"
SameDict(a, b) == DOMAIN a = DOMAIN b /\ \A k \in DOMAIN a : a[k] = b[k]

\* C4 as stated: on success the transport returns the data field when
\* present and the whole parsed body when data is absent.
C4_WholeBodyWhenAbsent ==
    TransportReturned =>
        IF "data" \in DOMAIN wire.json
        THEN response = wire.json.data
        ELSE response.t = "dict" /\ SameDict(response.d, wire.json)

\* C4 amended: on success the transport returns the data field when
\* present and an empty dict when data is absent.
C4_EmptyDictWhenAbsent ==
    TransportReturned =>
        IF "data" \in DOMAIN wire.json
        THEN response = wire.json.data
        ELSE response.t = "dict" /\ DOMAIN response.d = {}

C4_Witness ==
    /\ TransportReturned
    /\ "data" \notin DOMAIN wire.json
    /\ DOMAIN wire.json # {}
    /\ response.t = "dict" /\ DOMAIN response.d = {}

\* the normalizer was called on a top-level list / on an object
ListResponse == response.t = "list"
DictResponse == response.t = "dict"
Normalized == pc \in {"normalized", "done"}

\* the item sequence of an object response: the value under its data key,
\* unwrapped one further data level when that value is not a list
ObjectItems ==
    IF "data" \notin DOMAIN response.d THEN <<>>
    ELSE IF response.d.data.t = "list" THEN response.d.data.l
    ELSE IF "data" \in DOMAIN response.d.data.d THEN response.d.data.d.data.l
    ELSE <<>>
\* the item sequence C5 describes
ClaimedItems == IF ListResponse THEN response.l ELSE ObjectItems

Retained(item) == "title" \in DOMAIN item \/ "text" \in DOMAIN item
\* the number of records the normalizer of the platform makes of items
RecordCount(items) ==
    IF platform = "reddit" THEN Len(SelectSeq(items, Retained)) ELSE Len(items)

\* C5 as stated: a top-level list handed to the normalizer is taken as the
\* item sequence and normalized without raising; an object's items come
\* from its data key, unwrapped one further data level if not a list.
C5_ListIsItemSequence ==
    Called("normalize") =>
        /\ error.kind = "none"
        /\ Len(heap) = RecordCount(ClaimedItems)

\* the object half of C5 alone
C5_ObjectItems ==
    (Called("normalize") /\ DictResponse) =>
        /\ error.kind = "none"
        /\ Len(heap) = RecordCount(ObjectItems)

\* C6 as stated: in either module an item with neither a title nor a text
\* key produces no record, and normalization does not raise.
C6_DroppedInBoth ==
    (Called("normalize") /\ DictResponse) =>
        /\ error.kind = "none"
        /\ Len(heap) = Len(SelectSeq(ObjectItems, Retained))

\* C6 amended: parse_reddit_response produces no record for an item with
\* neither key and does not raise; parse_twitter_response produces one
\* record for every item, an item with neither key included.
C6_DroppedInRedditOnly ==
    (Called("normalize") /\ DictResponse) =>
        /\ error.kind = "none"
        /\ platform = "reddit" => Len(heap) = Len(SelectSeq(ObjectItems, Retained))
        /\ platform = "twitter" => Len(heap) = Len(ObjectItems)

C6_Witness ==
    /\ platform = "reddit" /\ pc = "done"
    /\ \E i \in 1..Len(ObjectItems) : ~Retained(ObjectItems[i])
    /\ \E i \in 1..Len(ObjectItems) : Retained(ObjectItems[i])
    /\ Len(heap) < Len(ObjectItems)

\* C7 as stated: the enricher leaves the records of its input list
\* unchanged (no engagement field added); only returned records carry it.
C7_InputUnchanged ==
    pc = "done" =>
        /\ \A i \in 1..Len(parsed) : "engagement" \notin DOMAIN heap[parsed[i]]
        /\ \A i \in 1..Len(enriched) : "engagement" \in DOMAIN heap[enriched[i]]

\* C8: every returned record carries engagement = score + 2 * num_comments
\* (Reddit) or likes + 2 * retweets + replies (Twitter); impressions have no
\* influence.
C8_EngagementFormula ==
    pc = "done" =>
        \A i \in 1..Len(result) :
            LET r == heap[result[i]]
            IN /\ "engagement" \in DOMAIN r
               /\ platform = "reddit" =>
                     r["engagement"] = r["score"] + 2 * r["num_comments"]
               /\ platform = "twitter" =>
                     r["engagement"] = r["metrics"].likes
                                       + 2 * r["metrics"].retweets
                                       + r["metrics"].replies

C8_Witness ==
    /\ platform = "twitter" /\ pc = "done" /\ Len(result) = 2
    /\ heap[result[1]]["metrics"].impressions # heap[result[2]]["metrics"].impressions
    /\ heap[result[1]]["metrics"].retweets = heap[result[2]]["metrics"].retweets
    /\ heap[result[1]]["metrics"].retweets > 0
    /\ heap[result[1]]["engagement"] = heap[result[2]]["engagement"]

\* the record rec is the normalization of item
FromItem(rec, item) ==
    IF platform = "twitter"
    THEN /\ rec["id"] = Get(item, "id", <<>>)
         /\ rec["text"] = Get(item, "text", <<>>)
         /\ rec["metrics"].retweets =
               Get(Get(item, "public_metrics", EmptyDict), "retweet_count", 0)
         /\ rec["metrics"].impressions =
               Get(Get(item, "public_metrics", EmptyDict), "impression_count", 0)
    ELSE IF "title" \in DOMAIN item
    THEN /\ rec["title"] = item.title
         /\ rec["score"] = Get(item, "score", 0)
         /\ rec["num_comments"] = Get(item, "num_comments", 0)
    ELSE /\ rec["title"] = Prefix(item.text, TitleMax)
         /\ rec["score"] = Get(Get(item, "metrics", EmptyDict), "likes", 0)
         /\ rec["num_comments"] = Get(Get(item, "metrics", EmptyDict), "replies", 0)

\* the items of which a record is made, in source order
RetainedItems ==
    IF platform = "reddit" THEN SelectSeq(ObjectItems, Retained) ELSE ObjectItems

\* C9: the output of normalization followed by enrichment lists the records
\* of the retained items in the order of their source items, without
\* reordering, duplicating or merging.
C9_OrderPreserved ==
    pc = "done" =>
        /\ Len(result) = Len(RetainedItems)
        /\ \A i \in 1..Len(result) : FromItem(heap[result[i]], RetainedItems[i])
        /\ \A i, j \in 1..Len(result) : i # j => result[i] # result[j]

C9_Witness ==
    /\ pc = "done" /\ platform = "twitter" /\ Len(result) >= 2
    /\ heap[result[1]]["id"] # heap[result[2]]["id"]
    /\ heap[result[1]]["username"] # heap[result[2]]["username"]

\* the includes.users list of the response
IncludedUsers == Get(Get(response.d, "includes", EmptyDict), "users", <<>>)
UserHits(tw) ==
    {i \in 1..Len(IncludedUsers) :
        "id" \in DOMAIN IncludedUsers[i] /\ IncludedUsers[i].id = tw["author_id"]}

\* C10 as stated: username and name are those of the includes.users entry
\* whose id equals author_id (empty when there is none), and tweet_url is
\* https://x.com/U/status/{id} with U the resolved username, or "unknown"
\* whenever the resolved username is missing or empty.
C10_UnknownWhenEmpty ==
    (platform = "twitter" /\ Normalized) =>
        \A i \in 1..Len(heap) :
            LET tw == heap[i]
            IN /\ UserHits(tw) = {} => tw["username"] = <<>> /\ tw["name"] = <<>>
               /\ UserHits(tw) # {} =>
                     \E h \in UserHits(tw) :
                         /\ tw["username"] = Get(IncludedUsers[h], "username", <<>>)
                         /\ tw["name"] = Get(IncludedUsers[h], "name", <<>>)
               /\ tw["tweet_url"] =
                     <<"https://x.com/">>
                     \o (IF Len(tw["username"]) = 0 THEN <<"unknown">> ELSE tw["username"])
                     \o <<"/status/">> \o tw["id"]

\* what the code does instead: "unknown" only when the matched entry has no
\* username key or there is no matched entry
C10_UnknownWhenKeyMissing ==
    (platform = "twitter" /\ Normalized) =>
        \A i \in 1..Len(heap) :
            LET tw == heap[i]
                user == IF UserHits(tw) = {} THEN EmptyDict
                        ELSE IncludedUsers[Max(UserHits(tw))]
            IN /\ tw["username"] = Get(user, "username", <<>>)
               /\ tw["name"] = Get(user, "name", <<>>)
               /\ tw["tweet_url"] =
                     <<"https://x.com/">>
                     \o (IF "username" \in DOMAIN user THEN user.username ELSE <<"unknown">>)
                     \o <<"/status/">> \o tw["id"]

====
